---- MODULE Spec2Model ----
(***************************************************************************)
(* Kernel dispatcher of the tinyBLAS CPU matrix multiplication             *)
(* (llamafile_sgemm and llamafile_sgemm_impl, src/whisper.cpp/common.h).   *)
(*                                                                         *)
(* A state holds one multiply request (the arguments every caller passes), *)
(* the build/run-time capability flags of the target, and, per calling     *)
(* thread, the position of its call of llamafile_sgemm and what the call   *)
(* has done so far: which callees it invoked and in which order, which     *)
(* engine it ran, which elements of C it wrote and what it returned.       *)
(* The build modelled is one with assertions enabled.                      *)
(*                                                                         *)
(* The same file declares wav_writer; the second part of the state is one  *)
(* wav_writer (its stream and its two fields) and the files it writes, as  *)
(* sequences of 16-bit little-endian words.                                *)
(***************************************************************************)
EXTENDS Integers, Sequences, FiniteSets, TLC

VARIABLES env, req, ith, pc, outcome, ret, trace, engine, written

\* the wav_writer: its stream, its two fields, and the files it writes
VARIABLES file, dataSize, wav_filename, disk, nsamples

sgemmvars == <<env, req, ith, pc, outcome, ret, trace, engine, written>>

wavvars == <<file, dataSize, wav_filename, disk, nsamples>>

vars == <<sgemmvars, wavvars>>

-----------------------------------------------------------------------------
(* Bounds of the model.                                                    *)

\* requests of Spec: m in 0..MaxM, n in 0..MaxN, nth in 1..MaxNth, and
\* ith in -1..nth; k and the strides are BaseK unless the request breaks
\* one of the preconditions
MaxM == 1
MaxN == 2
MaxNth == 2
BaseK == 1
\* requests of ParSpec: m, n in 0..ParMaxDim, nth in 1..ParMaxNth threads
ParMaxDim == 3
ParMaxNth == 4
\* WavSpec: a write call passes at most WavMaxLength samples, a file holds
\* at most WavMaxSamples samples and WavMaxHeaders headers
WavMaxLength == 2
WavMaxSamples == 2
WavMaxHeaders == 2

-----------------------------------------------------------------------------
(* Element encodings (the ggml type tags the dispatcher compares).         *)

GGML_TYPE_F32  == "F32"
GGML_TYPE_F16  == "F16"
GGML_TYPE_BF16 == "BF16"
GGML_TYPE_Q8_0 == "Q8_0"
GGML_TYPE_Q4_0 == "Q4_0"
GGML_TYPE_Q8_1 == "Q8_1"
GGML_TYPE_Q8_K == "Q8_K"
\* an encoding the per-encoding switch has no case for
GGML_TYPE_Q4_1 == "Q4_1"

ATypes == {GGML_TYPE_F32, GGML_TYPE_F16, GGML_TYPE_BF16, GGML_TYPE_Q8_0,
           GGML_TYPE_Q4_0, GGML_TYPE_Q4_1}
BTypes == {GGML_TYPE_F32, GGML_TYPE_F16, GGML_TYPE_BF16, GGML_TYPE_Q8_0,
           GGML_TYPE_Q8_1, GGML_TYPE_Q8_K, GGML_TYPE_Q4_0}
CTypes == {GGML_TYPE_F32, GGML_TYPE_F16}

FloatTypes == {GGML_TYPE_F32, GGML_TYPE_F16, GGML_TYPE_BF16}
QuantTypes == {GGML_TYPE_Q8_0, GGML_TYPE_Q4_0, GGML_TYPE_Q8_1, GGML_TYPE_Q8_K,
               GGML_TYPE_Q4_1}

-----------------------------------------------------------------------------
(* Capability tiers: the preprocessor symbols the build defines, the CPU   *)
(* features X86_CHECK finds at run time, and the FLAG_precise switch.      *)

Flags == {"x86_64", "AVX", "AVX2", "F16C", "AVX512F", "AVX512BF16",
          "aarch64", "ARM_NEON", "ARM_FP16", "ARM_DOTPROD", "MSC_VER",
          "cpuAVX2", "cpuFMA", "cpuF16C", "FLAG_precise"}

Env(S) == [f \in Flags |-> f \in S]

X86_AVX2 == {"x86_64", "AVX", "AVX2", "F16C", "cpuAVX2", "cpuFMA", "cpuF16C"}

Tiers ==
    { Env({}),
      Env({"x86_64"}),
      Env({"x86_64", "cpuAVX2", "cpuFMA", "cpuF16C"}),
      Env({"x86_64", "cpuAVX2"}),
      Env({"x86_64", "AVX"}),
      Env({"x86_64", "AVX", "F16C", "cpuF16C"}),
      Env({"x86_64", "AVX", "F16C"}),
      Env({"x86_64", "AVX", "AVX2", "cpuAVX2", "cpuFMA"}),
      Env(X86_AVX2),
      Env(X86_AVX2 \cup {"AVX512F"}),
      Env(X86_AVX2 \cup {"AVX512F", "AVX512BF16"}),
      Env({"ARM_NEON"}),
      Env({"ARM_NEON", "ARM_DOTPROD"}),
      Env({"aarch64", "ARM_NEON"}),
      Env({"aarch64", "ARM_NEON", "FLAG_precise"}),
      Env({"aarch64", "ARM_NEON", "ARM_DOTPROD"}),
      Env({"aarch64", "ARM_NEON", "ARM_FP16"}),
      Env({"aarch64", "ARM_NEON", "ARM_FP16", "ARM_DOTPROD"}),
      Env({"aarch64", "ARM_NEON", "ARM_DOTPROD", "MSC_VER"}),
      Env({"aarch64", "ARM_NEON", "ARM_FP16", "ARM_DOTPROD", "MSC_VER"}) }

\* X86_CHECK(F): the feature test made at run time
X86_CHECK(e, f) == e["cpu" \o f]

-----------------------------------------------------------------------------
(* Outcomes of a dispatch and the value the caller gets.                   *)

HANDLED           == "handled"
NOT_SUPPORTED     == "NOT_SUPPORTED"
NOT_PROFITABLE    == "NOT_PROFITABLE"
WANT_QUANTIZATION == "WANT_QUANTIZATION"
\* the call has not returned
NONE == "none"

\* the value each outcome macro expands to
MacroValue(o) == FALSE

\* wants-quantization returned as a true value
ReturnOf_WantTrue(o) == o \in {HANDLED, WANT_QUANTIZATION}

\* the bool a return statement of llamafile_sgemm(_impl) yields:
\* "return true" or "return <macro>"
ReturnOf(o) == IF o = HANDLED THEN TRUE ELSE MacroValue(o)

-----------------------------------------------------------------------------
(* Engines.                                                                *)

NoEngine == [kernel |-> "none", KN |-> 0, TA |-> "none", TB |-> "none"]

\* tinyBLAS<0, KN, V, V, TA, TB, TC>
tinyBLAS(KN, TA, TB) == [kernel |-> "tinyBLAS", KN |-> KN, TA |-> TA, TB |-> TB]
tinyBLAS_Q0_AVX2(TA, TB) == [kernel |-> "tinyBLAS_Q0_AVX2", KN |-> 0, TA |-> TA, TB |-> TB]
tinyBLAS_Q0_ARM(TA, TB) == [kernel |-> "tinyBLAS_Q0_ARM", KN |-> 0, TA |-> TA, TB |-> TB]

\* a return statement of llamafile_sgemm_impl: tb.matmul(m, n); return true
Run(e) == [outcome |-> HANDLED, engine |-> e]
\* return <macro>, no engine constructed
Decline(o) == [outcome |-> o, engine |-> NoEngine]

-----------------------------------------------------------------------------
(* llamafile_sgemm_impl: the per-encoding dispatch, one operator per case  *)
(* of switch (Atype).  Each #if / #elif chain is taken in source order.    *)

\* the AVX test placed before the AVX512F test
case_F32_NarrowFirst(e, Btype) ==
    IF Btype # GGML_TYPE_F32 THEN Decline(NOT_SUPPORTED)
    ELSE IF e.AVX \/ e.AVX2 THEN Run(tinyBLAS(8, "float", "float"))
    ELSE IF e.AVX512F THEN Run(tinyBLAS(16, "float", "float"))
    ELSE IF e.ARM_NEON THEN Run(tinyBLAS(4, "float", "float"))
    ELSE Decline(NOT_SUPPORTED)

case_F32(e, Btype) ==
    IF Btype # GGML_TYPE_F32 THEN Decline(NOT_SUPPORTED)
    ELSE IF e.AVX512F THEN Run(tinyBLAS(16, "float", "float"))
    ELSE IF e.AVX \/ e.AVX2 THEN Run(tinyBLAS(8, "float", "float"))
    ELSE IF e.ARM_NEON THEN Run(tinyBLAS(4, "float", "float"))
    ELSE Decline(NOT_SUPPORTED)

case_BF16(e, Btype, n) ==
    IF e.AVX512BF16 THEN
        IF Btype = GGML_TYPE_F32 /\ n < 2 THEN Run(tinyBLAS(16, "ggml_bf16_t", "float"))
        ELSE IF Btype = GGML_TYPE_F32 THEN Decline(WANT_QUANTIZATION)
        ELSE IF Btype # GGML_TYPE_BF16 THEN Decline(NOT_SUPPORTED)
        ELSE IF n > 1 THEN Run(tinyBLAS(32, "ggml_bf16_t", "ggml_bf16_t"))
        ELSE Run(tinyBLAS(16, "ggml_bf16_t", "ggml_bf16_t"))
    ELSE IF e.AVX512F THEN
        \* no test of Btype on this tier: B is read as float whatever it is
        Run(tinyBLAS(16, "ggml_bf16_t", "float"))
    ELSE IF e.AVX2 THEN
        IF Btype # GGML_TYPE_F32 THEN Decline(NOT_SUPPORTED)
        ELSE Run(tinyBLAS(8, "ggml_bf16_t", "float"))
    ELSE IF e.ARM_NEON /\ ~e.MSC_VER THEN
        IF Btype # GGML_TYPE_F32 THEN Decline(NOT_SUPPORTED)
        ELSE Run(tinyBLAS(4, "ggml_bf16_t", "float"))
    ELSE Decline(NOT_SUPPORTED)

\* the single-column test off by one: n <= 2 in place of n < 2
case_F16_OffByOne(e, Btype, n) ==
    IF e.AVX512F THEN
        IF Btype = GGML_TYPE_F32 /\ n <= 2 THEN Run(tinyBLAS(16, "ggml_fp16_t", "float"))
        ELSE IF Btype = GGML_TYPE_F32 THEN Decline(WANT_QUANTIZATION)
        ELSE IF Btype # GGML_TYPE_F16 THEN Decline(NOT_SUPPORTED)
        ELSE Run(tinyBLAS(16, "ggml_fp16_t", "ggml_fp16_t"))
    ELSE IF (e.AVX \/ e.AVX2) /\ e.F16C THEN
        IF X86_CHECK(e, "F16C") THEN
            IF Btype = GGML_TYPE_F32 /\ n <= 2 THEN Run(tinyBLAS(8, "ggml_fp16_t", "float"))
            ELSE IF Btype = GGML_TYPE_F32 THEN Decline(WANT_QUANTIZATION)
            ELSE IF Btype # GGML_TYPE_F16 THEN Decline(NOT_SUPPORTED)
            ELSE Run(tinyBLAS(8, "ggml_fp16_t", "ggml_fp16_t"))
        ELSE Decline(NOT_SUPPORTED)
    ELSE IF e.ARM_FP16 /\ ~e.MSC_VER THEN
        IF n < 2 THEN Decline(NOT_PROFITABLE)
        ELSE IF Btype = GGML_TYPE_F32 THEN Decline(WANT_QUANTIZATION)
        ELSE IF Btype # GGML_TYPE_F16 THEN Decline(NOT_SUPPORTED)
        ELSE Run(tinyBLAS(8, "ggml_fp16_t", "ggml_fp16_t"))
    ELSE IF e.ARM_NEON /\ ~e.MSC_VER THEN
        IF n < 2 /\ ~e.FLAG_precise THEN Decline(NOT_PROFITABLE)
        ELSE IF Btype # GGML_TYPE_F32 THEN Decline(NOT_SUPPORTED)
        ELSE Run(tinyBLAS(4, "ggml_fp16_t", "float"))
    ELSE Decline(NOT_SUPPORTED)

\* the not-profitable test made for n = 1 only
case_F16_MatvecOnly(e, Btype, n) ==
    IF e.AVX512F THEN
        IF Btype = GGML_TYPE_F32 /\ n < 2 THEN Run(tinyBLAS(16, "ggml_fp16_t", "float"))
        ELSE IF Btype = GGML_TYPE_F32 THEN Decline(WANT_QUANTIZATION)
        ELSE IF Btype # GGML_TYPE_F16 THEN Decline(NOT_SUPPORTED)
        ELSE Run(tinyBLAS(16, "ggml_fp16_t", "ggml_fp16_t"))
    ELSE IF (e.AVX \/ e.AVX2) /\ e.F16C THEN
        IF X86_CHECK(e, "F16C") THEN
            IF Btype = GGML_TYPE_F32 /\ n < 2 THEN Run(tinyBLAS(8, "ggml_fp16_t", "float"))
            ELSE IF Btype = GGML_TYPE_F32 THEN Decline(WANT_QUANTIZATION)
            ELSE IF Btype # GGML_TYPE_F16 THEN Decline(NOT_SUPPORTED)
            ELSE Run(tinyBLAS(8, "ggml_fp16_t", "ggml_fp16_t"))
        ELSE Decline(NOT_SUPPORTED)
    ELSE IF e.ARM_FP16 /\ ~e.MSC_VER THEN
        IF n = 1 THEN Decline(NOT_PROFITABLE)
        ELSE IF Btype = GGML_TYPE_F32 THEN Decline(WANT_QUANTIZATION)
        ELSE IF Btype # GGML_TYPE_F16 THEN Decline(NOT_SUPPORTED)
        ELSE Run(tinyBLAS(8, "ggml_fp16_t", "ggml_fp16_t"))
    ELSE IF e.ARM_NEON /\ ~e.MSC_VER THEN
        IF n = 1 /\ ~e.FLAG_precise THEN Decline(NOT_PROFITABLE)
        ELSE IF Btype # GGML_TYPE_F32 THEN Decline(NOT_SUPPORTED)
        ELSE Run(tinyBLAS(4, "ggml_fp16_t", "float"))
    ELSE Decline(NOT_SUPPORTED)

case_F16(e, Btype, n) ==
    IF e.AVX512F THEN
        IF Btype = GGML_TYPE_F32 /\ n < 2 THEN Run(tinyBLAS(16, "ggml_fp16_t", "float"))
        ELSE IF Btype = GGML_TYPE_F32 THEN Decline(WANT_QUANTIZATION)
        ELSE IF Btype # GGML_TYPE_F16 THEN Decline(NOT_SUPPORTED)
        ELSE Run(tinyBLAS(16, "ggml_fp16_t", "ggml_fp16_t"))
    ELSE IF (e.AVX \/ e.AVX2) /\ e.F16C THEN
        IF X86_CHECK(e, "F16C") THEN
            IF Btype = GGML_TYPE_F32 /\ n < 2 THEN Run(tinyBLAS(8, "ggml_fp16_t", "float"))
            ELSE IF Btype = GGML_TYPE_F32 THEN Decline(WANT_QUANTIZATION)
            ELSE IF Btype # GGML_TYPE_F16 THEN Decline(NOT_SUPPORTED)
            ELSE Run(tinyBLAS(8, "ggml_fp16_t", "ggml_fp16_t"))
        ELSE Decline(NOT_SUPPORTED)
    ELSE IF e.ARM_FP16 /\ ~e.MSC_VER THEN
        IF n < 2 THEN Decline(NOT_PROFITABLE)
        ELSE IF Btype = GGML_TYPE_F32 THEN Decline(WANT_QUANTIZATION)
        ELSE IF Btype # GGML_TYPE_F16 THEN Decline(NOT_SUPPORTED)
        ELSE Run(tinyBLAS(8, "ggml_fp16_t", "ggml_fp16_t"))
    ELSE IF e.ARM_NEON /\ ~e.MSC_VER THEN
        IF n < 2 /\ ~e.FLAG_precise THEN Decline(NOT_PROFITABLE)
        ELSE IF Btype # GGML_TYPE_F32 THEN Decline(NOT_SUPPORTED)
        ELSE Run(tinyBLAS(4, "ggml_fp16_t", "float"))
    ELSE Decline(NOT_SUPPORTED)

\* the test for a float B left out
case_Q8_0_NoWant(e, Btype) ==
    IF Btype # GGML_TYPE_Q8_0 THEN Decline(NOT_SUPPORTED)
    ELSE IF e.AVX2 \/ e.AVX512F THEN Run(tinyBLAS_Q0_AVX2("block_q8_0", "block_q8_0"))
    ELSE IF e.ARM_DOTPROD THEN Run(tinyBLAS_Q0_ARM("block_q8_0", "block_q8_0"))
    ELSE Decline(NOT_SUPPORTED)

case_Q8_0(e, Btype) ==
    IF Btype = GGML_TYPE_F32 THEN Decline(WANT_QUANTIZATION)
    ELSE IF Btype # GGML_TYPE_Q8_0 THEN Decline(NOT_SUPPORTED)
    ELSE IF e.AVX2 \/ e.AVX512F THEN Run(tinyBLAS_Q0_AVX2("block_q8_0", "block_q8_0"))
    ELSE IF e.ARM_DOTPROD THEN Run(tinyBLAS_Q0_ARM("block_q8_0", "block_q8_0"))
    ELSE Decline(NOT_SUPPORTED)

case_Q4_0(e, Btype) ==
    IF Btype = GGML_TYPE_F32 THEN Decline(WANT_QUANTIZATION)
    ELSE IF Btype # GGML_TYPE_Q8_0 THEN Decline(NOT_SUPPORTED)
    ELSE IF e.AVX2 \/ e.AVX512F THEN Run(tinyBLAS_Q0_AVX2("block_q4_0", "block_q8_0"))
    ELSE IF e.ARM_DOTPROD THEN Run(tinyBLAS_Q0_ARM("block_q4_0", "block_q8_0"))
    ELSE Decline(NOT_SUPPORTED)

llamafile_sgemm_impl(e, Atype, Btype, n) ==
    CASE Atype = GGML_TYPE_F32  -> case_F32(e, Btype)
      [] Atype = GGML_TYPE_BF16 -> case_BF16(e, Btype, n)
      [] Atype = GGML_TYPE_F16  -> case_F16(e, Btype, n)
      [] Atype = GGML_TYPE_Q8_0 -> case_Q8_0(e, Btype)
      [] Atype = GGML_TYPE_Q4_0 -> case_Q4_0(e, Btype)
      [] OTHER -> Decline(NOT_SUPPORTED)

-----------------------------------------------------------------------------
(* llamafile_sgemm: entry assertions, fast path, switch on Ctype.          *)

\* the eight assert() lines at entry
EntryAsserts(r, i) ==
    /\ r.m >= 0
    /\ r.n >= 0
    /\ r.k >= 0
    /\ r.lda >= r.k
    /\ r.ldb >= r.k
    /\ r.ldc >= r.m
    /\ r.nth > 0
    /\ i < r.nth

\* the Q8_0/Q8_1 block left out
FastPathApplies_Q8KOnly(e, r) ==
    /\ \/ e.x86_64 /\ X86_CHECK(e, "AVX2") /\ X86_CHECK(e, "FMA")
       \/ ~e.x86_64 /\ e.aarch64 /\ e.ARM_DOTPROD /\ ~e.MSC_VER
    /\ r.Btype = GGML_TYPE_Q8_K /\ r.Ctype = GGML_TYPE_F32

\* the conditions under which iqk_mul_mat is called before the switch
FastPathApplies(e, r) ==
    /\ \/ e.x86_64 /\ X86_CHECK(e, "AVX2") /\ X86_CHECK(e, "FMA")
       \/ ~e.x86_64 /\ e.aarch64 /\ e.ARM_DOTPROD /\ ~e.MSC_VER
    /\ \/ r.Btype = GGML_TYPE_Q8_K /\ r.Ctype = GGML_TYPE_F32
       \/ r.Btype \in {GGML_TYPE_Q8_0, GGML_TYPE_Q8_1} /\ r.Ctype = GGML_TYPE_F32

\* the switch on Ctype left out
CtypeSwitch_NoCtypeTest(e, r) == llamafile_sgemm_impl(e, r.Atype, r.Btype, r.n)

\* switch (Ctype)
CtypeSwitch(e, r) ==
    IF r.Ctype = GGML_TYPE_F32
    THEN llamafile_sgemm_impl(e, r.Atype, r.Btype, r.n)
    ELSE Decline(NOT_SUPPORTED)

\* every engine constructed as thread 0
EngineThread_Zero(r, i) == [ith |-> 0, nth |-> r.nth]

\* the thread index and count an engine (or the fast path) is constructed with
EngineThread(r, i) == [ith |-> i, nth |-> r.nth]

-----------------------------------------------------------------------------
(* The part of C one thread computes: a contiguous, roughly equal band of  *)
(* the larger of the two output dimensions.                                *)

Min(a, b) == IF a < b THEN a ELSE b

Duty(dim, nth) == (dim + nth - 1) \div nth

Band(dim, i, nth) == (Duty(dim, nth) * i) .. (Min(Duty(dim, nth) * (i + 1), dim) - 1)

Assigned(m, n, th) ==
    IF m >= n
    THEN Band(m, th.ith, th.nth) \X (0 .. n - 1)
    ELSE (0 .. m - 1) \X Band(n, th.ith, th.nth)

\* the elements of C
Cells(r) == (0 .. r.m - 1) \X (0 .. r.n - 1)

-----------------------------------------------------------------------------
(* Requests.                                                               *)

Request(m, n, k, lda, ldb, ldc, nth, A, B, C) ==
    [m |-> m, n |-> n, k |-> k, lda |-> lda, ldb |-> ldb, ldc |-> ldc,
     nth |-> nth, Atype |-> A, Btype |-> B, Ctype |-> C]

\* geometries that satisfy the preconditions on m, n, k, the strides and nth
Geometry(m, n, nth) ==
    [m |-> m, n |-> n, k |-> BaseK, lda |-> BaseK, ldb |-> BaseK, ldc |-> m, nth |-> nth]

GoodGeometries == {Geometry(m, n, nth) : m \in 0 .. MaxM, n \in 0 .. MaxN, nth \in 1 .. MaxNth}

\* geometries that break exactly one of them
BadGeometries ==
    LET g == Geometry(1, 1, 1) IN
    { [g EXCEPT !.m = -1], [g EXCEPT !.n = -1], [g EXCEPT !.k = -1],
      [g EXCEPT !.lda = BaseK - 1], [g EXCEPT !.ldb = BaseK - 1],
      [g EXCEPT !.ldc = 0], [g EXCEPT !.nth = 0] }

Requests ==
    { Request(g.m, g.n, g.k, g.lda, g.ldb, g.ldc, g.nth, A, B, C) :
        g \in GoodGeometries \cup BadGeometries, A \in ATypes, B \in BTypes, C \in CTypes }

\* the requests nth threads share in ParSpec: preconditions hold
ParTiers ==
    { Env(X86_AVX2), Env({"aarch64", "ARM_NEON", "ARM_DOTPROD"}) }

ParRequests ==
    { Request(m, n, BaseK, BaseK, BaseK, m, nth, T[1], T[2], GGML_TYPE_F32) :
        m \in 0 .. ParMaxDim, n \in 0 .. ParMaxDim, nth \in 1 .. ParMaxNth,
        T \in { <<GGML_TYPE_F32, GGML_TYPE_F32>>, <<GGML_TYPE_Q8_0, GGML_TYPE_Q8_0>> } }

-----------------------------------------------------------------------------
(* wav_writer.  A file is the sequence of its 16-bit little-endian words   *)
(* (every offset and every size the class uses is even); a 32-bit value    *)
(* takes two words, low word first.                                        *)

COMMON_SAMPLE_RATE == 16000

WavNames == {"a.wav", "b.wav"}

\* the floats a caller passes as PCM data
WavData == {-1, 1}

U16(v) == v % 65536
\* v modulo 2^32, taken word by word
U32(v) == (v % 65536) + 65536 * ((v \div 65536) % 65536)

\* the words of a uint32_t written with file.write(&v, 4)
Words32(v) == <<U32(v) % 65536, U32(v) \div 65536>>

\* the word index (from 1) of a byte offset
WordAt(offset) == offset \div 2 + 1

\* the uint32_t stored at a byte offset
Read32(content, offset) == content[WordAt(offset)] + 65536 * content[WordAt(offset) + 1]

\* file.write at put position pos (in words): overwrite, extending the file
WriteAt(content, pos, ws) ==
    [i \in 1 .. (IF Len(content) > pos + Len(ws) THEN Len(content) ELSE pos + Len(ws)) |->
        IF i > pos /\ i <= pos + Len(ws) THEN ws[i - pos] ELSE content[i]]

\* the 44 bytes write_header writes: "RIFF", 0, "WAVE", "fmt ", 16, 1,
\* channels, sample_rate, byte_rate, block_align, bits_per_sample, "data", 0
HeaderWords(sample_rate, bits_per_sample, channels) ==
    <<18770, 17990>> \o Words32(0) \o <<16727, 17750>> \o <<28006, 8308>>
    \o Words32(16) \o <<1>> \o <<U16(channels)>> \o Words32(sample_rate)
    \o Words32((sample_rate * channels * bits_per_sample) \div 8)
    \o <<U16((channels * bits_per_sample) \div 8)>> \o <<U16(bits_per_sample)>>
    \o <<24932, 24948>> \o Words32(0)

\* const int16_t intSample = data[i] * 32767, as the word written
intSample(x) == U16(x * 32767 + 65536)

\* the state of the ofstream: closed, or open on a path at a put position
Closed == [is_open |-> FALSE, path |-> "", pos |-> 0]

\* file.write on the stream: nothing reaches a file when it is not open
StreamWrite(f, d, ws) ==
    IF f.is_open THEN [d EXCEPT ![f.path] = WriteAt(@, f.pos, ws)] ELSE d

StreamAdvance(f, ws) ==
    IF f.is_open THEN [f EXCEPT !.pos = @ + Len(ws)] ELSE f

\* file.seekp(offset, std::ios::beg)
SeekBeg(f, offset) == IF f.is_open THEN [f EXCEPT !.pos = offset \div 2] ELSE f

\* file.seekp(0, std::ios::end)
SeekEnd(f, d) == IF f.is_open THEN [f EXCEPT !.pos = Len(d[f.path])] ELSE f

\* write_header: the header goes wherever the put position is
write_header(f, d, sample_rate, bits_per_sample, channels) ==
    LET ws == HeaderWords(sample_rate, bits_per_sample, channels)
    IN [file |-> StreamAdvance(f, ws), disk |-> StreamWrite(f, d, ws)]

\* open_wav: close the stream when the name changes; open (and truncate)
\* only when the stream is not open; ok is whether file.open succeeds
open_wav(f, d, ds, name, filename, ok) ==
    LET f1 == IF filename # name /\ f.is_open THEN Closed ELSE f
    IN IF ~f1.is_open
       THEN [file |-> IF ok THEN [is_open |-> TRUE, path |-> filename, pos |-> 0] ELSE Closed,
             disk |-> IF ok THEN [d EXCEPT ![filename] = << >>] ELSE d,
             wav_filename |-> filename,
             dataSize |-> 0,
             opened |-> ok]
       ELSE [file |-> f1, disk |-> d, wav_filename |-> name, dataSize |-> ds,
             opened |-> FALSE]

\* write_audio: the samples at the put position, then, when the file is
\* open, the two size fields at offsets 4 and 40 and a seek to the end
write_audio(f, d, ds, data) ==
    LET ws == [i \in 1 .. Len(data) |-> intSample(data[i])]
        d1 == StreamWrite(f, d, ws)
        f1 == StreamAdvance(f, ws)
        ds1 == U32(ds + 2 * Len(data))
        d2 == StreamWrite(SeekBeg(f1, 4), d1, Words32(36 + ds1))
        d3 == StreamWrite(SeekBeg(f1, 40), d2, Words32(ds1))
    IN [file |-> SeekEnd(f1, d3), disk |-> d3, dataSize |-> ds1]

\* a wav_writer after construction, no file written yet
WavNew ==
    /\ file = Closed
    /\ dataSize = 0
    /\ wav_filename = ""
    /\ disk = [f \in WavNames |-> << >>]
    /\ nsamples = 0

-----------------------------------------------------------------------------
(* The state machine: each caller t runs one call of llamafile_sgemm.      *)

Callers == DOMAIN pc

Fresh(T) ==
    /\ pc = [t \in T |-> "entry"]
    /\ outcome = [t \in T |-> NONE]
    /\ ret = [t \in T |-> FALSE]
    /\ trace = [t \in T |-> << >>]
    /\ engine = [t \in T |-> NoEngine]
    /\ written = [t \in T |-> {}]

\* one call, any request, any thread index the caller may pass
Init ==
    /\ env \in Tiers
    /\ req \in Requests
    /\ ith \in [{0} -> -1 .. req.nth]
    /\ Fresh({0})
    /\ WavNew

\* the caller's fan-out: nth threads call with the same request, thread t
\* passing ith = t
ParInit ==
    /\ env \in ParTiers
    /\ req \in ParRequests
    /\ ith = [t \in 0 .. req.nth - 1 |-> t]
    /\ Fresh(0 .. req.nth - 1)
    /\ WavNew

\* the assert() lines: a failed assertion aborts the call
Entry(t) ==
    /\ pc[t] = "entry"
    /\ pc' = [pc EXCEPT ![t] = IF EntryAsserts(req, ith[t]) THEN "fast" ELSE "aborted"]
    /\ UNCHANGED <<env, req, ith, outcome, ret, trace, engine, written>>
    /\ UNCHANGED wavvars

\* the #if block before the switch: iqk_mul_mat is tried when its guards
\* hold; if it accepts, it has computed this thread's part of C and the
\* call returns true
FastPath(t) ==
    /\ pc[t] = "fast"
    /\ IF FastPathApplies(env, req)
       THEN \E accepts \in BOOLEAN :
              /\ trace' = [trace EXCEPT ![t] = Append(@, "iqk_mul_mat")]
              /\ IF accepts
                 THEN /\ written' = [written EXCEPT ![t] =
                                       Assigned(req.m, req.n, EngineThread(req, ith[t]))]
                      /\ outcome' = [outcome EXCEPT ![t] = HANDLED]
                      /\ ret' = [ret EXCEPT ![t] = ReturnOf(HANDLED)]
                      /\ pc' = [pc EXCEPT ![t] = "done"]
                 ELSE /\ pc' = [pc EXCEPT ![t] = "switch"]
                      /\ UNCHANGED <<written, outcome, ret>>
       ELSE /\ pc' = [pc EXCEPT ![t] = "switch"]
            /\ UNCHANGED <<written, outcome, ret, trace>>
    /\ UNCHANGED <<env, req, ith, engine>>
    /\ UNCHANGED wavvars

\* switch (Ctype), llamafile_sgemm_impl and, where it selects one, the
\* engine's matmul over this thread's part of C
Dispatch(t) ==
    /\ pc[t] = "switch"
    /\ LET d == CtypeSwitch(env, req)
           called == IF req.Ctype = GGML_TYPE_F32 THEN <<"llamafile_sgemm_impl">> ELSE << >>
           ran == IF d.engine # NoEngine THEN <<"matmul">> ELSE << >>
       IN /\ trace' = [trace EXCEPT ![t] = @ \o called \o ran]
          /\ engine' = [engine EXCEPT ![t] = d.engine]
          /\ written' = [written EXCEPT ![t] =
                           IF d.engine # NoEngine
                           THEN Assigned(req.m, req.n, EngineThread(req, ith[t]))
                           ELSE {}]
          /\ outcome' = [outcome EXCEPT ![t] = d.outcome]
          /\ ret' = [ret EXCEPT ![t] = ReturnOf(d.outcome)]
    /\ pc' = [pc EXCEPT ![t] = "done"]
    /\ UNCHANGED <<env, req, ith>>
    /\ UNCHANGED wavvars

Next == \E t \in Callers : Entry(t) \/ FastPath(t) \/ Dispatch(t)

Spec == Init /\ [][Next]_vars

ParSpec == ParInit /\ [][Next]_vars

-----------------------------------------------------------------------------
(* The wav_writer's state machine: any sequence of open, write and close.  *)

\* no multiply is in progress
WavInit ==
    /\ env = Env({})
    /\ req = Request(0, 0, BaseK, BaseK, BaseK, 0, 1,
                     GGML_TYPE_F32, GGML_TYPE_F32, GGML_TYPE_F32)
    /\ ith = << >>
    /\ Fresh({})
    /\ WavNew

\* bool open(filename, sample_rate, bits_per_sample, channels)
open(filename, channels, ok) ==
    /\ LET o == open_wav(file, disk, dataSize, wav_filename, filename, ok)
           h == IF o.file.is_open
                THEN write_header(o.file, o.disk, COMMON_SAMPLE_RATE, 16, channels)
                ELSE [file |-> o.file, disk |-> o.disk]
       IN /\ Len(h.disk[filename]) <= 22 * WavMaxHeaders + WavMaxSamples
          /\ file' = h.file
          /\ disk' = h.disk
          /\ dataSize' = o.dataSize
          /\ wav_filename' = o.wav_filename
          /\ nsamples' = IF o.opened THEN 0 ELSE nsamples
    /\ UNCHANGED sgemmvars

\* bool write(data, length)
write(data) ==
    /\ nsamples + Len(data) <= WavMaxSamples
    /\ dataSize + 2 * Len(data) <= 2 * WavMaxSamples
    /\ LET w == write_audio(file, disk, dataSize, data)
       IN /\ file' = w.file
          /\ disk' = w.disk
          /\ dataSize' = w.dataSize
    /\ nsamples' = IF file.is_open THEN nsamples + Len(data) ELSE nsamples
    /\ UNCHANGED <<wav_filename, sgemmvars>>

\* bool close()
close ==
    /\ file' = Closed
    /\ UNCHANGED <<dataSize, wav_filename, disk, nsamples, sgemmvars>>

WavDatas == UNION {[1 .. l -> WavData] : l \in 0 .. WavMaxLength}

WavNext ==
    \/ \E filename \in WavNames, channels \in {1, 2}, ok \in BOOLEAN :
          open(filename, channels, ok)
    \/ \E data \in WavDatas : write(data)
    \/ close

WavSpec == WavInit /\ [][WavNext]_vars

-----------------------------------------------------------------------------
(* Vocabulary of the properties.                                           *)

Done(t) == pc[t] = "done"

\* the call went past the entry assertions
Entered(t) == pc[t] \in {"fast", "switch", "done"}

Called(t, f) == \E i \in 1 .. Len(trace[t]) : trace[t][i] = f

\* the call returned from the per-encoding dispatch
ImplReturned(t) == Done(t) /\ Called(t, "llamafile_sgemm_impl")

\* the call returned because the fast path accepted it
IqkAccepted(t) == Done(t) /\ trace[t] = <<"iqk_mul_mat">>

\* an element outside C was addressed
Fault(t) == ~(written[t] \subseteq Cells(req))

\* the invariants of a Multiply Request
RequestInvariants(r, i) ==
    /\ r.m >= 0 /\ r.n >= 0 /\ r.k >= 0
    /\ r.lda >= r.k /\ r.ldb >= r.k /\ r.ldc >= r.m
    /\ r.nth > 0
    /\ 0 <= i /\ i < r.nth

-----------------------------------------------------------------------------
\* C1: whenever Ctype is not 32-bit float, on every tier and for every
\* Atype/Btype, the call invokes neither iqk_mul_mat nor any engine, writes
\* nothing to C, and returns false (not-supported).
C1_NonFloatOutputDeclined ==
    \A t \in Callers :
        req.Ctype # GGML_TYPE_F32 =>
            /\ trace[t] = << >>
            /\ engine[t] = NoEngine
            /\ written[t] = {}
            /\ Done(t) => ret[t] = FALSE /\ outcome[t] = NOT_SUPPORTED

C1_Witness ==
    \E t \in Callers :
        /\ Done(t) /\ req.Ctype # GGML_TYPE_F32
        /\ req.Btype = GGML_TYPE_Q8_0 /\ req.Atype = GGML_TYPE_Q8_0
        /\ env.x86_64 /\ env.cpuAVX2 /\ env.cpuFMA /\ env.AVX2

-----------------------------------------------------------------------------
\* the fast path's precondition on the request, as the claim C2 states it
FastPathRequest(r) ==
    /\ r.Ctype = GGML_TYPE_F32
    /\ r.Btype \in {GGML_TYPE_Q8_K, GGML_TYPE_Q8_0, GGML_TYPE_Q8_1}

\* what C2 promises of a call t
FastPathFirst(t) ==
    /\ pc[t] \in {"switch", "done"} =>
          /\ Len(trace[t]) >= 1
          /\ trace[t][1] = "iqk_mul_mat"
    /\ Done(t) =>
          \/ /\ trace[t] = <<"iqk_mul_mat">>
             /\ ret[t] = TRUE
             /\ engine[t] = NoEngine
          \/ /\ Len(trace[t]) >= 2
             /\ trace[t][2] = "llamafile_sgemm_impl"
             /\ \A i \in 2 .. Len(trace[t]) : trace[t][i] # "iqk_mul_mat"
             /\ outcome[t] = llamafile_sgemm_impl(env, req.Atype, req.Btype, req.n).outcome
             /\ engine[t] = llamafile_sgemm_impl(env, req.Atype, req.Btype, req.n).engine

\* C2 (as stated): on x86-64 with AVX2 and FMA at run time, or aarch64 with
\* DOTPROD, with Ctype F32 and Btype Q8_K/Q8_0/Q8_1, iqk_mul_mat is tried
\* before the per-encoding dispatch; accepted means handled without any
\* engine, declined means the dispatch on Atype decides.
C2_Original ==
    \A t \in Callers :
        ( /\ \/ env.x86_64 /\ env.cpuAVX2 /\ env.cpuFMA
             \/ env.aarch64 /\ env.ARM_DOTPROD
          /\ FastPathRequest(req) )
        => FastPathFirst(t)

\* C2 (amended): the same, with the aarch64 targets limited to builds that
\* do not define _MSC_VER; on an aarch64 DOTPROD build that defines it the
\* fast path is never tried and the dispatch on Atype alone decides.
C2_FastPathFirst ==
    \A t \in Callers :
        FastPathRequest(req) =>
            /\ ( \/ env.x86_64 /\ env.cpuAVX2 /\ env.cpuFMA
                 \/ env.aarch64 /\ env.ARM_DOTPROD /\ ~env.MSC_VER )
               => FastPathFirst(t)
            /\ (env.aarch64 /\ env.ARM_DOTPROD /\ env.MSC_VER)
               => ~Called(t, "iqk_mul_mat")

C2_Witness ==
    \E t \in Callers :
        /\ Done(t)
        /\ env.aarch64 /\ env.ARM_DOTPROD /\ ~env.MSC_VER
        /\ req.Btype = GGML_TYPE_Q8_1 /\ req.Atype = GGML_TYPE_Q4_0
        /\ trace[t] = <<"iqk_mul_mat", "llamafile_sgemm_impl">>
        /\ outcome[t] = NOT_SUPPORTED

-----------------------------------------------------------------------------
\* the width of the widest float engine the target offers, 0 if none
WidestFloat(e) ==
    IF e.AVX512F THEN 16
    ELSE IF e.AVX \/ e.AVX2 THEN 8
    ELSE IF e.ARM_NEON THEN 4
    ELSE 0

MatmulCount(t) == Cardinality({i \in 1 .. Len(trace[t]) : trace[t][i] = "matmul"})

\* C3: for Atype F32 in the per-encoding dispatch: Btype other than F32 is
\* not-supported with no engine, on every tier; Btype F32 runs exactly one
\* float engine, the widest the target offers (16 with AVX512F, else 8 with
\* AVX/AVX2, else 4 with NEON) and returns handled; with none of these the
\* outcome is not-supported.
C3_Float32Dispatch ==
    \A t \in Callers :
        (ImplReturned(t) /\ req.Atype = GGML_TYPE_F32) =>
            IF req.Btype # GGML_TYPE_F32 \/ WidestFloat(env) = 0
            THEN /\ outcome[t] = NOT_SUPPORTED
                 /\ engine[t] = NoEngine
                 /\ MatmulCount(t) = 0
            ELSE /\ engine[t] = tinyBLAS(WidestFloat(env), "float", "float")
                 /\ MatmulCount(t) = 1
                 /\ outcome[t] = HANDLED
                 /\ ret[t] = TRUE

C3_Witness ==
    \E t \in Callers :
        /\ ImplReturned(t)
        /\ req.Atype = GGML_TYPE_F32 /\ req.Btype = GGML_TYPE_F32
        /\ env.AVX512F /\ env.AVX2
        /\ engine[t].KN = 16

-----------------------------------------------------------------------------
\* the tier has an engine for the pair (Atype, F32): some n is handled
HasMixedEngine(e, Atype) ==
    \E n \in 0 .. MaxN :
        llamafile_sgemm_impl(e, Atype, GGML_TYPE_F32, n).outcome = HANDLED

\* the tiers whose branch for (Atype, F32) tests n < 2
ColumnGated(e, Atype) ==
    \/ Atype = GGML_TYPE_BF16 /\ e.AVX512BF16
    \/ Atype = GGML_TYPE_F16 /\ e.AVX512F
    \/ Atype = GGML_TYPE_F16 /\ (e.AVX \/ e.AVX2) /\ e.F16C /\ e.cpuF16C

\* C4 (as stated): for Atype F16 or BF16 with Btype F32, on every tier that
\* has an engine for the pair, an engine runs and the call is handled only
\* when n < 2; for every n >= 2 the outcome is wants-quantization and no
\* engine runs.
C4_Original ==
    \A t \in Callers :
        ( /\ ImplReturned(t)
          /\ req.Atype \in {GGML_TYPE_F16, GGML_TYPE_BF16}
          /\ req.Btype = GGML_TYPE_F32
          /\ HasMixedEngine(env, req.Atype) )
        => /\ (outcome[t] = HANDLED \/ engine[t] # NoEngine) => req.n < 2
           /\ req.n >= 2 => outcome[t] = WANT_QUANTIZATION /\ engine[t] = NoEngine

\* C4 (amended): the single-column rule holds on the tiers whose branch
\* tests n: BF16 with AVX512BF16, F16 with AVX512F or with AVX/AVX2 and F16C
\* (present at run time).  There n < 2 runs the engine and is handled and
\* n >= 2 is wants-quantization with no engine.  On every other tier with an
\* engine for the pair (BF16 on AVX512F without AVX512BF16, on AVX2, on
\* NEON; F16 on NEON without FP16 vector arithmetic) n >= 2 runs the engine
\* and is handled too.
C4_SingleColumnRule ==
    \A t \in Callers :
        ( /\ ImplReturned(t)
          /\ req.Atype \in {GGML_TYPE_F16, GGML_TYPE_BF16}
          /\ req.Btype = GGML_TYPE_F32
          /\ HasMixedEngine(env, req.Atype) )
        => IF ColumnGated(env, req.Atype)
           THEN /\ req.n < 2 => /\ outcome[t] = HANDLED
                                /\ engine[t].kernel = "tinyBLAS"
                                /\ engine[t].TB = "float"
                                /\ ret[t] = TRUE
                /\ req.n >= 2 => /\ outcome[t] = WANT_QUANTIZATION
                                 /\ engine[t] = NoEngine
           ELSE req.n >= 2 => /\ outcome[t] = HANDLED
                              /\ engine[t].kernel = "tinyBLAS"
                              /\ engine[t].TB = "float"
                              /\ ret[t] = TRUE

C4_Witness ==
    \E t \in Callers :
        /\ ImplReturned(t)
        /\ req.Atype = GGML_TYPE_F16 /\ req.Btype = GGML_TYPE_F32
        /\ env.AVX /\ ~env.AVX2 /\ env.F16C /\ env.cpuF16C
        /\ req.n = 2
        /\ outcome[t] = WANT_QUANTIZATION

-----------------------------------------------------------------------------
\* C5 (as stated): for Atype Q8_0 or Q4_0 and every floating Btype (F32,
\* F16, BF16), on every tier the outcome is wants-quantization, no engine
\* runs and nothing is written to C.
C5_Original ==
    \A t \in Callers :
        ( /\ ImplReturned(t)
          /\ req.Atype \in {GGML_TYPE_Q8_0, GGML_TYPE_Q4_0}
          /\ req.Btype \in FloatTypes )
        => /\ outcome[t] = WANT_QUANTIZATION
           /\ engine[t] = NoEngine
           /\ written[t] = {}

\* C5 (amended): for Atype Q8_0 or Q4_0, on every tier no engine runs and
\* nothing is written to C for any floating Btype; the outcome is
\* wants-quantization for Btype F32 and not-supported for Btype F16 or BF16.
C5_QuantizedAFloatB ==
    \A t \in Callers :
        ( /\ ImplReturned(t)
          /\ req.Atype \in {GGML_TYPE_Q8_0, GGML_TYPE_Q4_0}
          /\ req.Btype \in FloatTypes )
        => /\ outcome[t] = IF req.Btype = GGML_TYPE_F32
                           THEN WANT_QUANTIZATION ELSE NOT_SUPPORTED
           /\ engine[t] = NoEngine
           /\ MatmulCount(t) = 0
           /\ written[t] = {}

C5_Witness ==
    \E t \in Callers :
        /\ ImplReturned(t)
        /\ req.Atype = GGML_TYPE_Q4_0 /\ req.Btype = GGML_TYPE_F32
        /\ env.AVX2
        /\ outcome[t] = WANT_QUANTIZATION

-----------------------------------------------------------------------------
\* the encoding pairs no engine is written for
UnmatchedPair(r) ==
    \/ r.Atype \in {GGML_TYPE_F16, GGML_TYPE_BF16} /\ r.Btype \in QuantTypes
    \/ r.Atype \notin {GGML_TYPE_F32, GGML_TYPE_F16, GGML_TYPE_BF16,
                       GGML_TYPE_Q8_0, GGML_TYPE_Q4_0}

\* C6: for every encoding pair no engine is written for (F16 or BF16 A
\* against a quantized B, or an Atype outside F32, F16, BF16, Q8_0, Q4_0),
\* whenever the fast path does not accept the call, llamafile_sgemm returns
\* not handled on every tier, no engine is constructed or run, and C is
\* left untouched.
C6_UnmatchedPairDeclined ==
    \A t \in Callers :
        (Done(t) /\ UnmatchedPair(req) /\ ~IqkAccepted(t)) =>
            /\ ret[t] = FALSE
            /\ engine[t] = NoEngine
            /\ written[t] = {}

\* the same, leaving out BF16 A on a build with AVX512F and no AVX512BF16
C6_ExceptAvx512Bf16 ==
    \A t \in Callers :
        ( /\ Done(t) /\ UnmatchedPair(req) /\ ~IqkAccepted(t)
          /\ ~(req.Atype = GGML_TYPE_BF16 /\ env.AVX512F /\ ~env.AVX512BF16) )
        => /\ ret[t] = FALSE
           /\ engine[t] = NoEngine
           /\ written[t] = {}

-----------------------------------------------------------------------------
\* some shape of this encoding pair is handled by the dispatch on this tier
SomeShapeHandled(e, r) ==
    \E n \in 0 .. MaxN : CtypeSwitch(e, [r EXCEPT !.n = n]).outcome = HANDLED

\* a returned call of a request with an empty output that keeps the
\* preconditions
Degenerate(t) ==
    /\ Done(t)
    /\ RequestInvariants(req, ith[t])
    /\ req.m = 0 \/ req.n = 0

-----------------------------------------------------------------------------
-----------------------------------------------------------------------------
\* every thread of the fan-out has returned handled
AllHandled == \A t \in Callers : Done(t) /\ ret[t] = TRUE

\* a set of whole rows, or of whole columns, of C
IsBand(S, r) ==
    \/ \E R \in SUBSET (0 .. r.m - 1) : S = R \X (0 .. r.n - 1)
    \/ \E Q \in SUBSET (0 .. r.n - 1) : S = (0 .. r.m - 1) \X Q

\* C9: when the nth threads ith = 0..nth-1 run the multiply with the same
\* arguments, under every interleaving the parts of C they write are
\* pairwise disjoint bands of rows or columns, and once all have returned
\* handled their union is all of C: every element is written by exactly one
\* thread.
C9_ThreadPartition ==
    /\ \A t \in Callers : written[t] \subseteq Cells(req) /\ IsBand(written[t], req)
    /\ \A t, u \in Callers : t # u => written[t] \cap written[u] = {}
    /\ AllHandled => UNION {written[t] : t \in Callers} = Cells(req)
    /\ AllHandled => \A c \in Cells(req) :
                        Cardinality({t \in Callers : c \in written[t]}) = 1

C9_Witness ==
    /\ AllHandled
    /\ req.nth = 3 /\ req.m = 3 /\ req.n = 2
    /\ \A t \in Callers : written[t] # {}
    /\ \E t \in Callers : IqkAccepted(t)
    /\ \E t \in Callers : engine[t] # NoEngine

-----------------------------------------------------------------------------
\* C10: every invariant of the Multiply Request is checked by an assertion
\* at entry: a call that is past the entry assertions satisfies m, n, k >= 0,
\* lda >= k, ldb >= k, ldc >= m, nth > 0 and 0 <= ith < nth, so a call that
\* violates one of them never reaches the fast path or an engine.
C10_AssertionsCoverInvariants ==
    \A t \in Callers : Entered(t) => RequestInvariants(req, ith[t])

\* the same, leaving out the lower bound of ith
C10_ExceptIthLowerBound ==
    \A t \in Callers :
        Entered(t) => ith[t] < 0 \/ RequestInvariants(req, ith[t])

-----------------------------------------------------------------------------
\* the file the stream is open on
OpenFile == disk[file.path]

\* the data-size field at offset 40 and the RIFF size field at offset 4
DataSizeField == Read32(OpenFile, 40)
RiffSizeField == Read32(OpenFile, 4)

\* the length of the open file in bytes
FileLength == 2 * Len(OpenFile)

\* C11: after any sequence of open, write and close on one wav_writer,
\* whenever its file is open the data-size field at offset 40 equals the
\* file length minus the 44-byte header, which is 2 bytes per sample written
\* since the file was opened, and the RIFF size field at offset 4 equals 36
\* plus that data size; also after open with the same filename while the
\* file is open, and after open with another filename.
C11_HeaderConsistency ==
    file.is_open =>
        /\ DataSizeField = FileLength - 44
        /\ DataSizeField = 2 * nsamples
        /\ RiffSizeField = 36 + DataSizeField

\* the data-size half of C11 alone
C11_DataSizeDescribesFile ==
    file.is_open => DataSizeField = FileLength - 44

\* what holds: a file that holds one header and the samples written since
\* it was opened has the data-size field right, and the RIFF size field
\* right unless it still holds the placeholder 0 that open wrote
C11_SingleHeaderFile ==
    (file.is_open /\ FileLength = 44 + 2 * nsamples) =>
        /\ DataSizeField = FileLength - 44
        /\ \/ RiffSizeField = 36 + DataSizeField
           \/ RiffSizeField = 0 /\ nsamples = 0

\* a file with a second header after its samples
C11_SecondHeader ==
    /\ file.is_open
    /\ FileLength = 88 + 2 * nsamples
    /\ nsamples > 0
    /\ DataSizeField = 2 * nsamples

====
